---- MODULE Spec2Model ----
(***************************************************************************)
(* Model of the e-commerce backend in src/main.py: two MongoDB collections *)
(* (products, orders) and the four FastAPI handlers over them.             *)
(*                                                                         *)
(* BSON values that take part in an equality match keep their BSON type:   *)
(* an _id the store assigns is an ObjectId, a pydantic `str` field is      *)
(* stored as a BSON string, and MongoDB never equates the two.             *)
(*                                                                         *)
(* The collections live in an external database that main.py binds to but  *)
(* neither creates nor clears (main.py:18-21), so the products collection  *)
(* may already hold documents written by another client of the store, with *)
(* any BSON value as _id.                                                  *)
(***************************************************************************)
EXTENDS Integers, Sequences, FiniteSets, TLC

VARIABLES products_collection, orders_collection, response

vars == <<products_collection, orders_collection, response>>

\* ------------------------------------------------------------------ bounds

MaxProducts == 1
MaxOrders == 2
MaxLimit == 2
MaxOffset == 2

\* ------------------------------------------------------------- BSON values

\* The 24 hexadecimal digits of the n-th ObjectId the driver generates for a
\* document of the products collection, and of the orders collection: every
\* generated ObjectId is distinct from every other.
ProductOidHex ==
  <<"65a000000000000000000001", "65a000000000000000000002",
    "65a000000000000000000003", "65a000000000000000000004">>

OrderOidHex ==
  <<"65b000000000000000000001", "65b000000000000000000002",
    "65b000000000000000000003", "65b000000000000000000004">>

ObjectId(hex) == [bsonType |-> "objectId", val |-> hex]

\* A Python str as the driver stores it.
BsonString(s) == [bsonType |-> "string", val |-> s]

\* str(x) for an ObjectId (its hex digits) or a str (itself).
str(b) == b.val

\* --------------------------------------------------------------- utilities

Min(a, b) == IF a < b THEN a ELSE b

max(a, b) == IF a > b THEN a ELSE b

RECURSIVE SeqSum(_)
SeqSum(s) == IF s = <<>> THEN 0 ELSE Head(s) + SeqSum(Tail(s))

RECURSIVE Concat(_)
Concat(ss) == IF ss = <<>> THEN <<>> ELSE Head(ss) \o Concat(Tail(ss))

\* The orderings of n things: the bijections on 1..n.
Orderings(n) ==
  {p \in [1..n -> 1..n] : \A i, j \in 1..n : p[i] = p[j] => i = j}

\* ------------------------------------------------------------------ inputs

\* A product name is a sequence of characters, so that the regular-expression
\* filter of list_products has characters to match.
Lower(c) == CASE c = "S" -> "s" [] c = "H" -> "h" [] OTHER -> c

NameShirt == <<"S", "h">>

NamePants == <<"p">>

\* Request bodies that pass the pydantic Product model.
ProductInputs ==
  { [name |-> NameShirt, price |-> 10,
     sizes |-> <<[size |-> "M", quantity |-> 1]>>] }

\* Products another client of the store wrote, with string identifiers.
ExistingProducts ==
  << [_id |-> BsonString("p1"), name |-> NamePants, price |-> 10,
      sizes |-> <<[size |-> "L", quantity |-> 5]>>],
     [_id |-> BsonString("p2"), name |-> NameShirt, price |-> 3,
      sizes |-> <<>>] >>

\* Order items as pydantic's OrderItem accepts them (productId: str, qty: int).
ItemP1 == [productId |-> "p1", qty |-> 2]

ItemP2 == [productId |-> "p2", qty |-> 1]

\* No product has this identifier.
ItemP9 == [productId |-> "p9", qty |-> 1]

\* The identifier create_product returns for the first product it inserts.
ItemCreated == [productId |-> ProductOidHex[1], qty |-> 2]

\* Request bodies that pass the pydantic Order model.
OrderInputs ==
  { [userId |-> "u1", items |-> i] :
      i \in { <<ItemP9>>, <<ItemCreated>>, <<ItemP9, ItemP1>>,
              <<ItemP1, ItemP1, ItemP2>> } }
  \cup { [userId |-> "U1", items |-> <<ItemP1>>] }

UserIds == {"u1", "U1"}

\* "" stands for an absent (or empty, equally falsy) query parameter.
NameFilters == { <<>>, <<"s", "H">> }

SizeFilters == { "", "M" }

\* Query(10, ge=1) and Query(0, ge=0), within the model's bounds.
Limits == 1..MaxLimit

Offsets == 0..MaxOffset

\* ------------------------------------------------------ store: insert_one

\* pymongo's insert_one adds an _id the driver generates when the document has none.
insert_one(coll, doc, oid) == Append(coll, doc @@ [_id |-> oid])

\* Order.dict(): every str field becomes a BSON string when stored.
order_dict(order) ==
  [userId |-> order.userId,
   items |-> [i \in 1..Len(order.items) |->
                [productId |-> BsonString(order.items[i].productId),
                 qty |-> order.items[i].qty]]]

product_dict(product) ==
  [name |-> product.name, price |-> product.price, sizes |-> product.sizes]

\* ------------------------------------------------------------------- state

\* The number of documents of a collection that carry a generated ObjectId.
generated(coll) ==
  Cardinality({i \in 1..Len(coll) : coll[i]._id.bsonType = "objectId"})

\* What the products collection may hold when the service starts: nothing, or
\* the products another client wrote.
ExistingCatalogues == { <<>>, ExistingProducts }

Init ==
  /\ products_collection \in ExistingCatalogues
  /\ orders_collection = <<>>
  /\ response = [op |-> "none"]

\* POST /products
create_product(product) ==
  LET inserted_id == ObjectId(ProductOidHex[generated(products_collection) + 1])
  IN /\ generated(products_collection) < MaxProducts
     /\ products_collection' =
          insert_one(products_collection, product_dict(product), inserted_id)
     /\ response' = [op |-> "create_product", status |-> 201,
                     body |-> [id |-> str(inserted_id)]]
     /\ UNCHANGED orders_collection

\* POST /orders
create_order(order) ==
  LET inserted_id == ObjectId(OrderOidHex[generated(orders_collection) + 1])
  IN /\ Len(orders_collection) < MaxOrders
     /\ orders_collection' =
          insert_one(orders_collection, order_dict(order), inserted_id)
     /\ response' = [op |-> "create_order", status |-> 201,
                     body |-> [id |-> str(inserted_id)]]
     /\ UNCHANGED products_collection

\* ------------------------------------------------- store: find and cursor

\* Cursor.skip(n) and the $skip stage.
skip(docs, n) == SubSeq(docs, n + 1, Len(docs))

\* $limit taking one document too many.
limit_one_more(docs, n) == SubSeq(docs, 1, Min(n + 1, Len(docs)))

\* Cursor.limit(n) and the $limit stage.
limit(docs, n) == SubSeq(docs, 1, Min(n, Len(docs)))

LowerSeq(name) == [i \in 1..Len(name) |-> Lower(name[i])]

\* {"$regex": re.escape(name), "$options": "i"}: the escaped pattern matches
\* the literal text anywhere in the field, letter case ignored.
regex_match(field, name) ==
  \E i \in 0..(Len(field) - Len(name)) :
    SubSeq(LowerSeq(field), i + 1, i + Len(name)) = LowerSeq(name)

\* The query document list_products builds.
query_matches(doc, name, size) ==
  /\ (name # <<>> => regex_match(doc.name, name))
  /\ (size # "" => \E i \in 1..Len(doc.sizes) : doc.sizes[i].size = size)

RECURSIVE find(_, _, _)
\* products_collection.find(query, {"sizes": 0}), in natural order.
find(coll, name, size) ==
  IF coll = <<>> THEN <<>>
  ELSE (IF query_matches(Head(coll), name, size)
        THEN <<[_id |-> Head(coll)._id, name |-> Head(coll).name,
                price |-> Head(coll).price]>>
        ELSE <<>>) \o find(Tail(coll), name, size)

\* product['id'] = str(product.pop('_id'))
product_out(doc) == [id |-> str(doc._id), name |-> doc.name, price |-> doc.price]

\* The envelope with next computed from the number of entries returned.
page_from_count(n_returned, lim, offset) ==
  [next |-> offset + n_returned, limit |-> n_returned,
   previous |-> max(0, offset - lim)]

\* The pagination envelope both list endpoints return.
page(n_returned, lim, offset) ==
  [next |-> offset + lim, limit |-> n_returned, previous |-> max(0, offset - lim)]

\* GET /products
list_products(name, size, lim, offset) ==
  LET products == limit(skip(find(products_collection, name, size), offset), lim)
      data == [i \in 1..Len(products) |-> product_out(products[i])]
  IN /\ response' = [op |-> "list_products", name |-> name, size |-> size,
                     limit |-> lim, offset |-> offset, status |-> 200,
                     body |-> [data |-> data, page |-> page(Len(data), lim, offset)]]
     /\ UNCHANGED <<products_collection, orders_collection>>

\* ------------------------------------------------ the aggregation pipeline

\* $match with a case-insensitive comparison of userId.
match_ignoring_case(coll, user_id) ==
  LET fold(u) == IF u = "U1" THEN "u1" ELSE u
  IN SelectSeq(coll, LAMBDA o : fold(o.userId) = fold(user_id))

RECURSIVE match(_, _)
\* {"$match": {"userId": user_id}}: exact, case-sensitive equality, natural order.
match(coll, user_id) ==
  IF coll = <<>> THEN <<>>
  ELSE (IF Head(coll).userId = user_id THEN <<Head(coll)>> ELSE <<>>)
       \o match(Tail(coll), user_id)

\* {"$unwind": "$items"}: one document per element of items, none for an empty array.
unwind_items(docs) ==
  Concat([d \in 1..Len(docs) |->
            [i \in 1..Len(docs[d].items) |->
               [_id |-> docs[d]._id, userId |-> docs[d].userId,
                items |-> docs[d].items[i]]]])

\* $lookup comparing the digits of the identifiers, whatever their BSON types.
lookup_eq_untyped(localField, foreignField) == localField.val = foreignField.val

\* The equality match of $lookup: BSON values are equal when both their type
\* and their value are.
lookup_eq(localField, foreignField) == localField = foreignField

RECURSIVE lookup_from(_, _)
\* The documents of `from` whose _id equals the local field.
lookup_from(coll, localField) ==
  IF coll = <<>> THEN <<>>
  ELSE (IF lookup_eq(localField, Head(coll)._id) THEN <<Head(coll)>> ELSE <<>>)
       \o lookup_from(Tail(coll), localField)

\* {"$lookup": {from: products, localField: items.productId, foreignField: _id,
\*              as: items.productDetails}}
lookup(rows, coll) ==
  [r \in 1..Len(rows) |->
     [_id |-> rows[r]._id, userId |-> rows[r].userId,
      items |-> [productId |-> rows[r].items.productId, qty |-> rows[r].items.qty,
                 productDetails |-> lookup_from(coll, rows[r].items.productId)]]]

\* $unwind with preserveNullAndEmptyArrays: a row whose productDetails array is
\* empty is kept, with a null product.
unwind_productDetails_preserving(rows) ==
  Concat([r \in 1..Len(rows) |->
            [k \in 1..max(1, Len(rows[r].items.productDetails)) |->
               [_id |-> rows[r]._id, userId |-> rows[r].userId,
                items |-> [productId |-> rows[r].items.productId,
                           qty |-> rows[r].items.qty,
                           productDetails |->
                             IF rows[r].items.productDetails = <<>>
                             THEN [_id |-> BsonString("null"), name |-> <<>>,
                                   price |-> 0, sizes |-> <<>>]
                             ELSE rows[r].items.productDetails[k]]]]])

\* {"$unwind": "$items.productDetails"}: one document per joined product, none
\* when the array is empty.
unwind_productDetails(rows) ==
  Concat([r \in 1..Len(rows) |->
            [k \in 1..Len(rows[r].items.productDetails) |->
               [_id |-> rows[r]._id, userId |-> rows[r].userId,
                items |-> [productId |-> rows[r].items.productId,
                           qty |-> rows[r].items.qty,
                           productDetails |-> rows[r].items.productDetails[k]]]]])

RECURSIVE group_keys(_, _)
\* The distinct values of "$_id" among the rows, in order of first appearance.
group_keys(rows, seen) ==
  IF rows = <<>> THEN <<>>
  ELSE IF Head(rows)._id \in seen THEN group_keys(Tail(rows), seen)
  ELSE <<Head(rows)._id>> \o group_keys(Tail(rows), seen \cup {Head(rows)._id})

RECURSIVE group_items_reversed(_, _)
\* $push collecting the items of a group last row first.
group_items_reversed(rows, id) ==
  IF rows = <<>> THEN <<>>
  ELSE group_items_reversed(Tail(rows), id)
       \o (IF Head(rows)._id = id THEN <<Head(rows).items>> ELSE <<>>)

RECURSIVE group_items(_, _)
\* {"$push": "$items"}: the items of the rows of one group, in arrival order.
group_items(rows, id) ==
  IF rows = <<>> THEN <<>>
  ELSE (IF Head(rows)._id = id THEN <<Head(rows).items>> ELSE <<>>)
       \o group_items(Tail(rows), id)

\* $sum over the prices alone, the quantity left out.
group_total_prices(items) ==
  SeqSum([i \in 1..Len(items) |-> items[i].productDetails.price])

\* {"$sum": {"$multiply": ["$items.qty", "$items.productDetails.price"]}}
group_total(items) ==
  SeqSum([i \in 1..Len(items) |-> items[i].qty * items[i].productDetails.price])

\* {"$group": {"_id": "$_id", items: ..., total: ...}}: one document per key.
group(rows) ==
  LET keys == group_keys(rows, {})
  IN [k \in 1..Len(keys) |->
        [_id |-> keys[k], items |-> group_items(rows, keys[k]),
         total |-> group_total(group_items(rows, keys[k]))]]

\* $group does not order its output documents: the stage may emit its groups
\* in any order, and the order may differ from one execution to the next.
group_outputs(rows) ==
  LET g == group(rows)
  IN {[i \in 1..Len(g) |-> g[o[i]]] : o \in Orderings(Len(g))}

\* The stages of the pipeline before $skip and $limit.
pipeline_groups(user_id) ==
  group_outputs(unwind_productDetails(lookup(unwind_items(
    match(orders_collection, user_id)), products_collection)))

\* item['productDetails']['id'] = str(item['productDetails'].pop('_id'));
\* del item['productDetails']['sizes']
item_out(item) ==
  [productId |-> str(item.productId), qty |-> item.qty,
   productDetails |-> [id |-> str(item.productDetails._id),
                       name |-> item.productDetails.name,
                       price |-> item.productDetails.price]]

\* order['id'] = str(order.pop('_id'))
order_out(order) ==
  [id |-> str(order._id),
   items |-> [i \in 1..Len(order.items) |-> item_out(order.items[i])],
   total |-> order.total]

\* The handler removing the orders it read from the collection.
get_user_orders_consuming(user_id, lim, offset) ==
  \E grouped \in pipeline_groups(user_id) :
    LET orders == limit(skip(grouped, offset), lim)
        data == [i \in 1..Len(orders) |-> order_out(orders[i])]
    IN /\ response' = [op |-> "get_user_orders", user_id |-> user_id,
                       limit |-> lim, offset |-> offset, status |-> 200,
                       body |-> [data |-> data,
                                 page |-> page(Len(data), lim, offset)]]
       /\ orders_collection' =
            SelectSeq(orders_collection, LAMBDA o : o.userId # user_id)
       /\ UNCHANGED products_collection

\* GET /orders/{user_id}
get_user_orders(user_id, lim, offset) ==
  \E grouped \in pipeline_groups(user_id) :
    LET orders == limit(skip(grouped, offset), lim)
        data == [i \in 1..Len(orders) |-> order_out(orders[i])]
    IN /\ response' = [op |-> "get_user_orders", user_id |-> user_id,
                       limit |-> lim, offset |-> offset, status |-> 200,
                       body |-> [data |-> data,
                                 page |-> page(Len(data), lim, offset)]]
       /\ UNCHANGED <<products_collection, orders_collection>>

\* ----------------------------------------------------------- specification

Next ==
  \/ \E product \in ProductInputs : create_product(product)
  \/ \E order \in OrderInputs : create_order(order)
  \/ \E name \in NameFilters, size \in SizeFilters, lim \in Limits,
        offset \in Offsets : list_products(name, size, lim, offset)
  \/ \E user_id \in UserIds, lim \in Limits, offset \in Offsets :
        get_user_orders(user_id, lim, offset)

Spec == Init /\ [][Next]_vars

\* ------------------------------------------------- vocabulary of the claims

IsGet == response.op = "get_user_orders"

IsList == response.op = "list_products"

\* The stored orders of the user the last getUserOrders asked for.
UserOrders == {i \in 1..Len(orders_collection) :
                 orders_collection[i].userId = response.user_id}

\* A stored product whose identifier an order item's productId equals.
ItemMatches(item) ==
  \E k \in 1..Len(products_collection) : products_collection[k]._id = item.productId

MatchedProduct(item) ==
  products_collection[CHOOSE k \in 1..Len(products_collection) :
                        products_collection[k]._id = item.productId]

\* The stored orders of the requested user that have a matching item.
Qualifying == {i \in UserOrders :
                 \E j \in 1..Len(orders_collection[i].items) :
                   ItemMatches(orders_collection[i].items[j])}

\* The requested window is wide enough to hold every order of the user.
WindowCoversAll == response.offset = 0 /\ response.limit >= Cardinality(UserOrders)

Returned(i) ==
  \E d \in 1..Len(response.body.data) :
    response.body.data[d].id = str(orders_collection[i]._id)

\* The stored order a returned order was built from.
StoredOf(d) ==
  orders_collection[CHOOSE i \in 1..Len(orders_collection) :
                      str(orders_collection[i]._id) = response.body.data[d].id]

\* ------------------------------------------------------------------ claims

\* C1: after createProduct returned identifier P for a product with price c and
\* createOrder stored an order of user u with an item {productId: P, qty: q}, a
\* getUserOrders(u, ...) whose window covers the order returns it with that item
\* present, productDetails.id = P, no sizes field, and total counting q*c for it.
C1_CreatedProductJoined ==
  (IsGet /\ WindowCoversAll) =>
    \A i \in UserOrders : \A j \in 1..Len(orders_collection[i].items) :
      \A k \in 1..Len(products_collection) :
        LET P == str(products_collection[k]._id)
            item == orders_collection[i].items[j]
        IN (products_collection[k]._id.bsonType = "objectId" /\ str(item.productId) = P)
           => \E d \in 1..Len(response.body.data) :
                /\ response.body.data[d].id = str(orders_collection[i]._id)
                /\ \E e \in 1..Len(response.body.data[d].items) :
                     LET out == response.body.data[d].items[e]
                     IN /\ out.productId = P
                        /\ out.qty = item.qty
                        /\ out.productDetails.id = P
                        /\ "sizes" \notin DOMAIN out.productDetails
                /\ response.body.data[d].total
                     = SeqSum([e \in 1..Len(response.body.data[d].items) |->
                                 response.body.data[d].items[e].qty
                                 * response.body.data[d].items[e].productDetails.price])
                /\ response.body.data[d].total >= item.qty * products_collection[k].price

\* C2: the total of every returned order equals the sum, over exactly the items
\* returned in it, of the item's qty times the price of its joined product.
C2_TotalIsSumOfReturnedItems ==
  IsGet =>
    \A d \in 1..Len(response.body.data) :
      LET items == response.body.data[d].items
      IN response.body.data[d].total
           = SeqSum([e \in 1..Len(items) |-> items[e].qty * items[e].productDetails.price])

\* A returned order with three items over two products of different prices:
\* 2 * 10 + 2 * 10 + 1 * 3.
C2_Witness ==
  /\ IsGet
  /\ \E d \in 1..Len(response.body.data) :
       LET items == response.body.data[d].items
       IN /\ Len(items) = 3
          /\ items[1].productDetails.price # items[3].productDetails.price
          /\ response.body.data[d].total = 43

C4_AllUnmatchedOrderAbsent ==
  IsGet =>
    /\ \A i \in UserOrders :
         (/\ Len(orders_collection[i].items) >= 1
          /\ \A j \in 1..Len(orders_collection[i].items) :
               ~ItemMatches(orders_collection[i].items[j]))
         => ~Returned(i)
    /\ \A d \in 1..Len(response.body.data) :
         ~(response.body.data[d].items = <<>> /\ response.body.data[d].total = 0)

\* The user has an order whose only item names a product that does not exist,
\* next to one that is returned, and the window covers both.
C4_Witness ==
  /\ IsGet
  /\ WindowCoversAll
  /\ response.body.data # <<>>
  /\ \E i \in UserOrders :
       /\ Len(orders_collection[i].items) >= 1
       /\ \A j \in 1..Len(orders_collection[i].items) :
            orders_collection[i].items[j].productId = BsonString("p9")

C6_WindowOfGroups ==
  IsGet =>
    LET data == response.body.data
        remaining == max(0, Cardinality(Qualifying) - response.offset)
    IN /\ Len(data) <= response.limit
       /\ Len(data) = Min(response.limit, remaining)
       /\ \A d, e \in 1..Len(data) : data[d].id = data[e].id => d = e
       /\ \A d \in 1..Len(data) :
            \E i \in Qualifying : data[d].id = str(orders_collection[i]._id)

\* More groups than the window takes, with a group skipped.
C6_Witness ==
  /\ IsGet
  /\ response.offset = 1
  /\ response.limit = 1
  /\ Cardinality(Qualifying) = MaxOrders
  /\ Len(response.body.data) = 1

\* C7: every returned order is a stored order whose userId equals the requested
\* userId exactly; no order of another user appears.
C7_OnlyRequestedUser ==
  IsGet =>
    \A d \in 1..Len(response.body.data) :
      /\ \E i \in 1..Len(orders_collection) :
           str(orders_collection[i]._id) = response.body.data[d].id
      /\ \A i \in 1..Len(orders_collection) :
           str(orders_collection[i]._id) = response.body.data[d].id
           => orders_collection[i].userId = response.user_id

\* The user's order is returned while another user, whose userId differs in
\* letter case only, has an order with a matching item that is not.
C7_Witness ==
  /\ IsGet
  /\ response.user_id = "u1"
  /\ Len(response.body.data) = 1
  /\ \E i \in 1..Len(orders_collection) :
       /\ orders_collection[i].userId = "U1"
       /\ ItemMatches(orders_collection[i].items[1])

\* C8: getUserOrders leaves the products and orders collections exactly as
\* they were.
C8_ReadOnly ==
  [][response'.op = "get_user_orders"
     => (/\ products_collection' = products_collection
         /\ orders_collection' = orders_collection)]_vars

\* getUserOrders answered from collections that both hold created documents.
C8_Witness ==
  /\ IsGet
  /\ response.body.data # <<>>
  /\ Len(orders_collection) = MaxOrders
  /\ generated(products_collection) >= 1

\* C9: the items of a returned order are exactly the stored order's items whose
\* productId matches a stored product, in stored order, one entry per stored
\* item, each with its own qty and the matched product as productDetails.
C9_ItemsAreMatchedStoredItems ==
  IsGet =>
    \A d \in 1..Len(response.body.data) :
      LET kept == SelectSeq(StoredOf(d).items, ItemMatches)
      IN response.body.data[d].items
           = [e \in 1..Len(kept) |->
                [productId |-> kept[e].productId.val,
                 qty |-> kept[e].qty,
                 productDetails |->
                   [id |-> MatchedProduct(kept[e])._id.val,
                    name |-> MatchedProduct(kept[e]).name,
                    price |-> MatchedProduct(kept[e]).price]]]

\* The returned data holds an order that lost its unmatched item and an order
\* that kept all three entries, the first two of them for the same product.
C9_Witness ==
  /\ IsGet
  /\ \E d \in 1..Len(response.body.data) :
       /\ Len(StoredOf(d).items) = 2
       /\ Len(response.body.data[d].items) = 1
  /\ \E d \in 1..Len(response.body.data) :
       /\ Len(response.body.data[d].items) = 3
       /\ response.body.data[d].items[1].productId
            = response.body.data[d].items[2].productId
       /\ response.body.data[d].items[3].productId = "p2"

\* C10: for getUserOrders and listProducts alike, page.next = offset + limit,
\* page.previous = max(0, offset - limit), and page.limit is the number of
\* entries returned in data.
C10_PageEnvelope ==
  (IsGet \/ IsList) =>
    /\ response.body.page.next = response.offset + response.limit
    /\ response.body.page.previous
         = (IF response.offset - response.limit > 0
            THEN response.offset - response.limit ELSE 0)
    /\ response.body.page.limit = Len(response.body.data)

\* A listProducts page whose next points past the last product and whose
\* previous is above zero.
C10_Witness ==
  /\ IsList
  /\ response.offset > response.limit
  /\ Len(response.body.data) = 1
  /\ response.body.page.next >= Len(products_collection)
  /\ response.body.page.previous = 1

====
